---- MODULE Spec2Model ----
(***************************************************************************)
(* Animal Home API (src/main.py, src/schemas.py): the route handlers, the  *)
(* startup seeding hook, the query-filter construction of GET /animals and *)
(* the response projector to_public, over a document store.                *)
(*                                                                         *)
(* Encodings.  A Python str that the program inspects (regex search, email *)
(* syntax) is a sequence of one-character strings; a str that is only      *)
(* stored and compared is a TLA+ string.  An Optional[T] value is a set    *)
(* with no element (None) or one element.  A document is a function from   *)
(* field names to values.  An ObjectId is the number of the insert that    *)
(* created it.  A float amount is counted in tenths.                       *)
(***************************************************************************)
EXTENDS Integers, Sequences, FiniteSets, TLC

VARIABLES
    db,      \* the store handle: "none" (db is None), "up", or "down" (configured, unreachable)
    store,   \* collection name -> sequence of stored documents, in insertion order
    nextId,  \* the next ObjectId the driver hands out
    last,    \* the last operation: its input and its outcome
    pre      \* the store as it was when the last operation began

vars == <<db, store, nextId, last, pre>>

----------------------------------------------------------------------------
(* Bounds of the model *)

\* POST requests that reach the store in one behaviour
MaxWrites == 1

----------------------------------------------------------------------------
(* Program constants *)

AnimalLimitDefault == 24
LimitGe == 1
LimitLe == 100
AgeParamGe == 0
FeaturedLimit == 8
StoriesLimitDefault == 6

Collections == {"animal", "story", "application", "volunteer", "donation"}

----------------------------------------------------------------------------
(* Sequences and optional values *)

None == {}

Some(x) == {x}

TheValue(opt) == CHOOSE x \in opt : TRUE

Take(s, n) == SubSeq(s, 1, IF n < Len(s) THEN n ELSE Len(s))

Abs(n) == IF n < 0 THEN -n ELSE n

EmptyDoc == [f \in {} |-> {}]

----------------------------------------------------------------------------
(* Characters *)

UpperCase == <<"A","B","C","D","E","F","G","H","I","J","K","L","M",
               "N","O","P","Q","R","S","T","U","V","W","X","Y","Z">>

LowerCase == <<"a","b","c","d","e","f","g","h","i","j","k","l","m",
               "n","o","p","q","r","s","t","u","v","w","x","y","z">>

Lower(c) ==
    IF \E i \in 1..Len(UpperCase) : UpperCase[i] = c
    THEN LowerCase[CHOOSE i \in 1..Len(UpperCase) : UpperCase[i] = c]
    ELSE c

HexDigits == <<"0","1","2","3","4","5","6","7","8","9","a","b","c","d","e","f">>

\* str(ObjectId): the hexadecimal rendering of the identity
ObjectIdStr(n) == <<HexDigits[((n \div 16) % 16) + 1], HexDigits[(n % 16) + 1]>>

\* str(None)
NoneStr == <<"N","o","n","e">>

----------------------------------------------------------------------------
(* Seed content of the startup hook *)

examples == <<
    [ name |-> <<"L","u","n","a">>,
      species |-> "dog",
      breed |-> <<"L","a","b","r","a","d","o","r"," ","M","i","x">>,
      age |-> 3,
      size |-> "large",
      gender |-> "female",
      description |-> <<"P","l","a","y","f","u","l",","," ","g","e","n","t","l","e",","," ",
                        "l","o","v","e","s"," ","l","o","n","g"," ","w","a","l","k","s"," ",
                        "a","n","d"," ","b","e","l","l","y"," ","r","u","b","s",".">>,
      photos |-> <<"https://images.unsplash.com/photo-1543466835-00a7907e9de1?q=80&w=1200&auto=format&fit=crop">>,
      featured |-> TRUE,
      location |-> "Shelter A",
      good_with_kids |-> TRUE,
      good_with_pets |-> TRUE ],
    [ name |-> <<"M","i","l","o">>,
      species |-> "cat",
      breed |-> <<"T","a","b","b","y">>,
      age |-> 2,
      size |-> "medium",
      gender |-> "male",
      description |-> <<"C","a","l","m"," ","c","u","d","d","l","e"," ","b","u","d","d","y"," ",
                        "w","h","o"," ","e","n","j","o","y","s"," ","s","u","n","n","y"," ",
                        "w","i","n","d","o","w","s",".">>,
      photos |-> <<"https://images.unsplash.com/photo-1518791841217-8f162f1e1131?q=80&w=1200&auto=format&fit=crop">>,
      featured |-> TRUE,
      location |-> "Shelter B",
      good_with_kids |-> TRUE,
      good_with_pets |-> FALSE ],
    [ name |-> <<"P","o","p","p","y">>,
      species |-> "rabbit",
      breed |-> <<"M","i","n","i"," ","R","e","x">>,
      age |-> 1,
      size |-> "small",
      gender |-> "female",
      description |-> <<"C","u","r","i","o","u","s"," ","a","n","d"," ","g","e","n","t","l","e",","," ",
                        "l","o","v","e","s"," ","g","r","e","e","n","s",".">>,
      photos |-> <<"https://images.unsplash.com/photo-1452857297128-d9c29adba80b?q=80&w=1200&auto=format&fit=crop">>,
      featured |-> FALSE,
      location |-> "Foster Home" ] >>

story_examples == <<
    [ title |-> "Luna found her forever home",
      animal_name |-> "Luna",
      content |-> "After weeks of training and love, Luna is now hiking every weekend with her new family!",
      image_url |-> "https://images.unsplash.com/photo-1548199973-03cce0bbc87b?q=80&w=1200&auto=format&fit=crop" ],
    [ title |-> "Milo the office cat",
      animal_name |-> "Milo",
      content |-> "Milo helps his adopter debug code and nap responsibly.",
      image_url |-> "https://images.unsplash.com/photo-1511044568932-338cba0ad803?q=80&w=1200&auto=format&fit=crop" ] >>

----------------------------------------------------------------------------
(* Response projector *)

\* Python's None where a document is expected
NoneDoc == [NoneType |-> TRUE]

\* "not doc": None and the empty dict are falsy
Falsy(doc) == doc = NoneDoc \/ DOMAIN doc = {}

\* to_public without its "doc.pop('_id', None)"
to_public_keeps_internal_id(doc) ==
    IF Falsy(doc)
    THEN doc
    ELSE [f \in DOMAIN doc \cup {"id"} |->
            IF f = "id"
            THEN IF "_id" \in DOMAIN doc THEN ObjectIdStr(doc["_id"]) ELSE NoneStr
            ELSE doc[f]]

to_public(doc) ==
    IF Falsy(doc)
    THEN doc
    ELSE LET withId == [f \in DOMAIN doc \cup {"id"} |->
                          IF f = "id"
                          THEN IF "_id" \in DOMAIN doc
                               THEN ObjectIdStr(doc["_id"])
                               ELSE NoneStr
                          ELSE doc[f]]
         IN  [f \in DOMAIN withId \ {"_id"} |-> withId[f]]

\* [to_public(d) for d in docs]
ProjectAll(docs) ==
    IF docs = <<>> THEN <<>> ELSE [i \in 1..Len(docs) |-> to_public(docs[i])]

----------------------------------------------------------------------------
(* The document store as the handlers use it *)

\* the driver gives each inserted document the next identity
WithIds(docs, first) == [i \in 1..Len(docs) |-> ("_id" :> (first + i - 1)) @@ docs[i]]

insert_many(coll, docs, first) == coll \o WithIds(docs, first)

\* count_documents({}) == 0
IsEmptyCollection(coll) == Len(coll) = 0

\* $regex: the pattern language covered is literal characters and ".";
\* a pattern with an unclosed "(" is rejected by the store
RegexValid(p) == \A k \in 1..Len(p) : p[k] # "("

RegexCharMatch(pc, c, options) ==
    \/ pc = "."
    \/ IF options = "i" THEN Lower(pc) = Lower(c) ELSE pc = c

RegexSearch(p, text, options) ==
    \E i \in 0..(Len(text) - Len(p)) :
        \A k \in 1..Len(p) : RegexCharMatch(p[k], text[i + k], options)

RegexCond(doc, c) ==
    /\ c.field \in DOMAIN doc
    /\ RegexSearch(c.regex, doc[c.field], c.options)

RangeCond(v, cond) ==
    /\ "$gte" \in DOMAIN cond => v >= cond["$gte"]
    /\ "$lte" \in DOMAIN cond => v <= cond["$lte"]

\* a filter document matches when every one of its entries does
Matches(doc, filt) ==
    \A k \in DOMAIN filt :
        CASE k = "$or" -> \E i \in 1..Len(filt[k]) : RegexCond(doc, filt[k][i])
          [] k = "age" -> "age" \in DOMAIN doc /\ RangeCond(doc["age"], filt[k])
          [] OTHER     -> k \in DOMAIN doc /\ doc[k] = filt[k]

FilterValid(filt) ==
    "$or" \in DOMAIN filt =>
        \A i \in 1..Len(filt["$or"]) : RegexValid(filt["$or"][i].regex)

Find(coll, filt) == SelectSeq(coll, LAMBDA d : Matches(d, filt))

\* cursor.limit(n): 0 means no limit, a negative n counts as its absolute value
CursorLimit(docs, n) == IF n = 0 THEN docs ELSE Take(docs, Abs(n))

----------------------------------------------------------------------------
(* Query filter of GET /animals *)

\* truthiness of an Optional[str]
TruthyStr(opt) == opt # None /\ TheValue(opt) # ""

TruthyChars(opt) == opt # None /\ TheValue(opt) # <<>>

OrDefault(opt, d) == IF opt = None THEN d ELSE TheValue(opt)

AgeQuery(req) ==
    (IF req.age_min # None THEN "$gte" :> TheValue(req.age_min) ELSE EmptyDoc)
    @@ (IF req.age_max # None THEN "$lte" :> TheValue(req.age_max) ELSE EmptyDoc)

\* BuildFilter with "if featured:" in place of "if featured is not None:"
BuildFilterFeaturedTruthy(req) ==
    (IF TruthyChars(req.q)
     THEN "$or" :> << [field |-> "name", regex |-> TheValue(req.q), options |-> "i"],
                      [field |-> "breed", regex |-> TheValue(req.q), options |-> "i"],
                      [field |-> "description", regex |-> TheValue(req.q), options |-> "i"] >>
     ELSE EmptyDoc)
    @@ (IF TruthyStr(req.species) THEN "species" :> TheValue(req.species) ELSE EmptyDoc)
    @@ (IF TruthyStr(req.size) THEN "size" :> TheValue(req.size) ELSE EmptyDoc)
    @@ (IF req.featured # None /\ TheValue(req.featured)
        THEN "featured" :> TheValue(req.featured) ELSE EmptyDoc)
    @@ (IF DOMAIN AgeQuery(req) # {} THEN "age" :> AgeQuery(req) ELSE EmptyDoc)

BuildFilter(req) ==
    (IF TruthyChars(req.q)
     THEN "$or" :> << [field |-> "name", regex |-> TheValue(req.q), options |-> "i"],
                      [field |-> "breed", regex |-> TheValue(req.q), options |-> "i"],
                      [field |-> "description", regex |-> TheValue(req.q), options |-> "i"] >>
     ELSE EmptyDoc)
    @@ (IF TruthyStr(req.species) THEN "species" :> TheValue(req.species) ELSE EmptyDoc)
    @@ (IF TruthyStr(req.size) THEN "size" :> TheValue(req.size) ELSE EmptyDoc)
    @@ (IF req.featured # None THEN "featured" :> TheValue(req.featured) ELSE EmptyDoc)
    @@ (IF DOMAIN AgeQuery(req) # {} THEN "age" :> AgeQuery(req) ELSE EmptyDoc)

\* Query(..., ge=0) on age_min and age_max, Query(24, ge=1, le=100) on limit
AgeParamOk(opt) == opt = None \/ TheValue(opt) >= AgeParamGe

\* LimitOk with ge=0 in place of ge=1
LimitOkFromZero(opt) == opt = None \/ (TheValue(opt) >= 0 /\ TheValue(opt) <= LimitLe)

LimitOk(opt) == opt = None \/ (TheValue(opt) >= LimitGe /\ TheValue(opt) <= LimitLe)

AnimalParamsOk(req) ==
    /\ AgeParamOk(req.age_min)
    /\ AgeParamOk(req.age_max)
    /\ LimitOk(req.limit)

----------------------------------------------------------------------------
(* Record schemas of the request bodies *)

\* EmailStr: one "@", a non-empty local part, a dotted domain with non-empty labels
IsEmail(s) ==
    LET ats == {i \in 1..Len(s) : s[i] = "@"}
        at == CHOOSE i \in ats : TRUE
        domain == SubSeq(s, at + 1, Len(s))
    IN  /\ Cardinality(ats) = 1
        /\ at > 1
        /\ \A i \in 1..Len(s) : s[i] # " "
        /\ \E i \in 1..Len(domain) : domain[i] = "."
        /\ domain[1] # "." /\ domain[Len(domain)] # "."
        /\ \A i \in 1..(Len(domain) - 1) : ~(domain[i] = "." /\ domain[i + 1] = ".")

ApplicationValid(raw) ==
    /\ raw.animal_id # None
    /\ raw.full_name # None
    /\ raw.email # None /\ IsEmail(TheValue(raw.email))

Application(raw) ==
    [ animal_id |-> TheValue(raw.animal_id),
      full_name |-> TheValue(raw.full_name),
      email |-> TheValue(raw.email),
      phone |-> raw.phone,
      message |-> raw.message ]

VolunteerValid(raw) ==
    /\ raw.full_name # None
    /\ raw.email # None /\ IsEmail(TheValue(raw.email))

Volunteer(raw) ==
    [ full_name |-> TheValue(raw.full_name),
      email |-> TheValue(raw.email),
      interests |-> OrDefault(raw.interests, <<>>),
      availability |-> raw.availability,
      message |-> raw.message ]

\* DonationValid with ge=0 in place of gt=0 on amount
DonationValidFromZero(raw) ==
    /\ raw.full_name # None
    /\ raw.email # None => IsEmail(TheValue(raw.email))
    /\ raw.amount # None /\ TheValue(raw.amount) >= 0

DonationValid(raw) ==
    /\ raw.full_name # None
    /\ raw.email # None => IsEmail(TheValue(raw.email))
    /\ raw.amount # None /\ TheValue(raw.amount) > 0

Donation(raw) ==
    [ full_name |-> TheValue(raw.full_name),
      email |-> raw.email,
      amount |-> TheValue(raw.amount),
      message |-> raw.message ]

----------------------------------------------------------------------------
(* database.create_document: one insert_one, or the failure it raises *)

create_document(coll, data, first) ==
    IF db = "up"
    THEN [ok |-> TRUE, id |-> ObjectIdStr(first), coll |-> Append(coll, ("_id" :> first) @@ data)]
    ELSE [ok |-> FALSE, coll |-> coll,
          cause |-> IF db = "none" THEN "Database not available" ELSE "ServerSelectionTimeoutError"]

\* documents added to the store through the POST endpoints
WritesDone == Len(store["application"]) + Len(store["volunteer"]) + Len(store["donation"])

----------------------------------------------------------------------------
(* Inputs *)

ValidEmail == <<"a","n","n","@","e","x",".","o","r","g">>
MalformedEmail == <<"n","o","t","-","a","n","-","e","m","a","i","l">>
UndottedEmail == <<"a","n","n","@","e","x">>

RawApplications ==
    [ animal_id : {None, Some("0a")},
      full_name : {None, Some("Ann")},
      email : {None, Some(ValidEmail), Some(MalformedEmail)},
      phone : {None},
      message : {None} ]

RawVolunteers ==
    [ full_name : {Some("Ann")},
      email : {Some(ValidEmail), Some(UndottedEmail)},
      interests : {None, Some(<<"walking">>)},
      availability : {None},
      message : {None} ]

RawDonations ==
    [ full_name : {Some("Ann")},
      email : {None, Some(ValidEmail), Some(MalformedEmail)},
      amount : {None, Some(-50), Some(0), Some(255)},
      message : {None} ]

\* the requests of an exhaustive search of GET /animals
SearchRequests ==
    [ q : {None, Some(<<>>), Some(<<"l","u">>), Some(<<"R","E","X">>),
           Some(<<"l",".","n">>), Some(<<"s",".">>), Some(<<"(">>)},
      species : {None, Some(""), Some("cat")},
      size : {None, Some(""), Some("small")},
      featured : {None, Some(TRUE), Some(FALSE)},
      age_min : {None, Some(-1), Some(0), Some(2)},
      age_max : {None, Some(2), Some(5)},
      limit : {None, Some(0), Some(1), Some(2), Some(100), Some(101)} ]

\* the requests of GET /animals made alongside the other endpoints
BrowseRequests ==
    [ q : {None, Some(<<"l","u">>)},
      species : {None, Some("cat")},
      size : {None},
      featured : {None, Some(TRUE)},
      age_min : {None},
      age_max : {None, Some(2)},
      limit : {None, Some(0), Some(1)} ]

StoriesLimits == {None, Some(-1), Some(0), Some(1), Some(100), Some(101)}

\* animals and stories the store may hold before the service first starts
Rex == [ _id |-> 1, name |-> <<"R","e","x">>, species |-> "dog", age |-> 6,
         size |-> "large", featured |-> FALSE ]

Kiwi == [ _id |-> 2, name |-> <<"K","i","w","i">>, species |-> "cat", age |-> 4,
          size |-> "small", featured |-> TRUE, breed |-> <<"R","e","x">> ]

Tale == [ _id |-> 3, title |-> "Rex came home", content |-> "Rex was adopted." ]

InitialAnimals == {<<>>, <<Rex, Kiwi>>}

InitialStories == {<<>>, <<Tale>>}

FirstFreeId == Tale["_id"] + 1

Idle == [op |-> "idle"]

----------------------------------------------------------------------------
(* Initial state *)

Init ==
    /\ db \in {"none", "up", "down"}
    /\ \E a \in InitialAnimals, t \in InitialStories :
          store = [c \in Collections |->
                      IF c = "animal" THEN a ELSE IF c = "story" THEN t ELSE <<>>]
    /\ nextId = FirstFreeId
    /\ last = Idle
    /\ pre = store

----------------------------------------------------------------------------
(* The environment: between two operations the configured store becomes     *)
(* unreachable, or reachable again                                           *)

StoreDown ==
    /\ last = Idle
    /\ db = "up"
    /\ db' = "down"
    /\ UNCHANGED <<store, nextId, last, pre>>

StoreUp ==
    /\ last = Idle
    /\ db = "down"
    /\ db' = "up"
    /\ UNCHANGED <<store, nextId, last, pre>>

\* the outcome of an operation is handed over; nothing of it stays in the process
Complete ==
    /\ last # Idle
    /\ last' = Idle
    /\ pre' = store
    /\ UNCHANGED <<db, store, nextId>>

----------------------------------------------------------------------------
(* Startup hook *)

\* SeedCollection without the emptiness test
SeedCollectionAlways(coll, docs, first) == insert_many(coll, docs, first)

\* SeedCollection that replaces the collection by the seed content
SeedCollectionReset(coll, docs, first) == WithIds(docs, first)

\* one "if count_documents({}) == 0: insert_many(...)" of the hook
SeedCollection(coll, docs, first) ==
    IF IsEmptyCollection(coll) THEN insert_many(coll, docs, first) ELSE coll

\* failAt: the store call that raises, when one does ("animal", "story") or "none"
seed_data(failAt) ==
    LET animals == SeedCollection(store["animal"], examples, nextId)
        idA == nextId + (Len(animals) - Len(store["animal"]))
        stories == SeedCollection(store["story"], story_examples, idA)
        idS == idA + (Len(stories) - Len(store["story"]))
    IN  /\ last = Idle
        /\ pre' = store
        /\ UNCHANGED db
        /\ IF db = "none"
           THEN /\ last' = [op |-> "seed_data", db |-> db, outcome |-> "no store"]
                /\ UNCHANGED <<store, nextId>>
           ELSE IF db = "down" \/ failAt = "animal"
           THEN /\ last' = [op |-> "seed_data", db |-> db, outcome |-> "swallowed"]
                /\ UNCHANGED <<store, nextId>>
           ELSE IF failAt = "story"
           THEN /\ last' = [op |-> "seed_data", db |-> db, outcome |-> "swallowed"]
                /\ store' = [store EXCEPT !["animal"] = animals]
                /\ nextId' = idA
           ELSE /\ last' = [op |-> "seed_data", db |-> db, outcome |-> "seeded"]
                /\ store' = [store EXCEPT !["animal"] = animals, !["story"] = stories]
                /\ nextId' = idS

----------------------------------------------------------------------------
(* Read endpoints *)

health ==
    /\ last = Idle
    /\ last' = [op |-> "health", db |-> db, status |-> 200,
                body |-> [message |-> "Animal Home API running"]]
    /\ pre' = store
    /\ UNCHANGED <<db, store, nextId>>

\* what a read handler returns once its parameters are accepted:
\* the empty list without a store, else the projected documents of the cursor
ReadOutcome(op, req, coll, filt, limit) ==
    IF db = "none"
    THEN [op |-> op, req |-> req, db |-> db, status |-> 200, body |-> <<>>, queried |-> FALSE]
    ELSE IF db = "down" \/ ~FilterValid(filt)
    THEN [op |-> op, req |-> req, db |-> db, status |-> 500, body |-> <<>>, queried |-> TRUE]
    ELSE [op |-> op, req |-> req, db |-> db, status |-> 200,
          body |-> ProjectAll(CursorLimit(Find(coll, filt), limit)),
          queried |-> TRUE]

Rejected(op, req) ==
    [op |-> op, req |-> req, db |-> db, status |-> 422, body |-> <<>>, queried |-> FALSE]

list_animals(req) ==
    /\ last = Idle
    /\ last' = IF ~AnimalParamsOk(req)
               THEN Rejected("list_animals", req)
               ELSE ReadOutcome("list_animals", req, store["animal"], BuildFilter(req),
                                OrDefault(req.limit, AnimalLimitDefault))
    /\ pre' = store
    /\ UNCHANGED <<db, store, nextId>>

featured_animals ==
    /\ last = Idle
    /\ last' = ReadOutcome("featured_animals", None, store["animal"],
                           "featured" :> TRUE, FeaturedLimit)
    /\ pre' = store
    /\ UNCHANGED <<db, store, nextId>>

\* limit: int = 6, with no range constraint
get_stories(limit) ==
    /\ last = Idle
    /\ last' = ReadOutcome("get_stories", [limit |-> limit], store["story"], EmptyDoc,
                           OrDefault(limit, StoriesLimitDefault))
    /\ pre' = store
    /\ UNCHANGED <<db, store, nextId>>

----------------------------------------------------------------------------
(* Write endpoints *)

\* WriteOutcome that answers a failed insert like a stored one
WriteOutcomeSwallowed(op, raw, created, token) ==
    [op |-> op, req |-> raw, db |-> db, status |-> 200,
     body |-> [id |-> IF created.ok THEN created.id ELSE NoneStr, status |-> token]]

\* the handler body: create_document, then the identity with the status token,
\* or HTTPException(500, detail=str(e))
WriteOutcome(op, raw, created, token) ==
    IF created.ok
    THEN [op |-> op, req |-> raw, db |-> db, status |-> 200,
          body |-> [id |-> created.id, status |-> token]]
    ELSE [op |-> op, req |-> raw, db |-> db, status |-> 500,
          body |-> [detail |-> created.cause]]

submit_application(raw) ==
    LET created == create_document(store["application"], Application(raw), nextId)
    IN  /\ last = Idle
        /\ pre' = store
        /\ UNCHANGED db
        /\ IF ~ApplicationValid(raw)
           THEN /\ last' = Rejected("submit_application", raw)
                /\ UNCHANGED <<store, nextId>>
           ELSE /\ created.ok => WritesDone < MaxWrites
                /\ last' = WriteOutcome("submit_application", raw, created, "received")
                /\ store' = [store EXCEPT !["application"] = created.coll]
                /\ nextId' = IF created.ok THEN nextId + 1 ELSE nextId

submit_volunteer(raw) ==
    LET created == create_document(store["volunteer"], Volunteer(raw), nextId)
    IN  /\ last = Idle
        /\ pre' = store
        /\ UNCHANGED db
        /\ IF ~VolunteerValid(raw)
           THEN /\ last' = Rejected("submit_volunteer", raw)
                /\ UNCHANGED <<store, nextId>>
           ELSE /\ created.ok => WritesDone < MaxWrites
                /\ last' = WriteOutcome("submit_volunteer", raw, created, "received")
                /\ store' = [store EXCEPT !["volunteer"] = created.coll]
                /\ nextId' = IF created.ok THEN nextId + 1 ELSE nextId

submit_donation(raw) ==
    LET created == create_document(store["donation"], Donation(raw), nextId)
    IN  /\ last = Idle
        /\ pre' = store
        /\ UNCHANGED db
        /\ IF ~DonationValid(raw)
           THEN /\ last' = Rejected("submit_donation", raw)
                /\ UNCHANGED <<store, nextId>>
           ELSE /\ created.ok => WritesDone < MaxWrites
                /\ last' = WriteOutcome("submit_donation", raw, created, "pledged")
                /\ store' = [store EXCEPT !["donation"] = created.coll]
                /\ nextId' = IF created.ok THEN nextId + 1 ELSE nextId

----------------------------------------------------------------------------
(* Specifications *)

Environment == StoreDown \/ StoreUp \/ Complete

Startup == \E failAt \in {"none", "animal", "story"} : seed_data(failAt)

Browse == last = Idle /\ \E req \in BrowseRequests : list_animals(req)

Search == last = Idle /\ \E req \in SearchRequests : list_animals(req)

Stories == last = Idle /\ \E limit \in StoriesLimits : get_stories(limit)

Apply == last = Idle /\ \E raw \in RawApplications : submit_application(raw)

Enlist == last = Idle /\ \E raw \in RawVolunteers : submit_volunteer(raw)

Donate == last = Idle /\ \E raw \in RawDonations : submit_donation(raw)

\* the whole API
Next ==
    \/ Environment
    \/ Startup
    \/ Stories
    \/ health
    \/ Browse
    \/ featured_animals
    \/ Apply
    \/ Enlist
    \/ Donate

Spec == Init /\ [][Next]_vars

\* the animal search, over every combination of its parameters
NextSearch ==
    \/ Environment
    \/ Startup
    \/ Search

SpecSearch == Init /\ [][NextSearch]_vars

----------------------------------------------------------------------------
(* The projector on its own: to_public applied to one document *)

Restrict(doc, fields) == [f \in fields \cap DOMAIN doc |-> doc[f]]

\* documents as the store returns them, with their fields taken from the seed
\* content in every combination, and the two falsy inputs
ProjectInputs ==
    {NoneDoc, EmptyDoc}
    \cup { ("_id" :> n) @@ Restrict(examples[k], fields) :
              n \in {1, 10, 171}, k \in 1..Len(examples),
              fields \in SUBSET {"name", "age", "featured", "photos", "good_with_kids"} }
    \cup { ("_id" :> n) @@ Restrict(story_examples[k], fields) :
              n \in {2, 255}, k \in 1..Len(story_examples),
              fields \in SUBSET {"title", "animal_name"} }

InitProject ==
    /\ db = "none"
    /\ store = [c \in Collections |-> <<>>]
    /\ nextId = FirstFreeId
    /\ pre = store
    /\ \E d \in ProjectInputs : last = [op |-> "document", doc |-> d]

Project ==
    /\ last.op = "document"
    /\ last' = [op |-> "to_public", doc |-> last.doc, out |-> to_public(last.doc)]
    /\ UNCHANGED <<db, store, nextId, pre>>

SpecProject == InitProject /\ [][Project]_vars

----------------------------------------------------------------------------
(* Properties *)

ReadOps == {"list_animals", "featured_animals", "get_stories"}

WriteOps == {"submit_application", "submit_volunteer", "submit_donation"}

Min(a, b) == IF a < b THEN a ELSE b

\* the identities of a response body, and of the stored documents satisfying P
BodyIds(body) == {body[i]["id"] : i \in 1..Len(body)}

IdsOf(docs) == {ObjectIdStr(d["_id"]) : d \in docs}

Docs(coll) == {coll[i] : i \in 1..Len(coll)}

\* body holds distinct documents of `eligible`, as many as the limit allows
ReturnsFrom(body, eligible, limit) ==
    /\ BodyIds(body) \subseteq eligible
    /\ Cardinality(BodyIds(body)) = Len(body)
    /\ Len(body) = Min(limit, Cardinality(eligible))

\* a document without its identity
Strip(doc) == [f \in DOMAIN doc \ {"_id"} |-> doc[f]]

StripAll(coll) == [i \in 1..Len(coll) |-> Strip(coll[i])]

Copies(coll, content) == Cardinality({i \in 1..Len(coll) : Strip(coll[i]) = content})

(* C8 ----------------------------------------------------------------- *)

\* C8: to_public of a document with a store-assigned identity has that identity
\* (as its string) under "id", has no "_id", and has every other field of the
\* input with the input's value, and no further field; None projects to None.
C8_Projection ==
    last.op = "to_public" =>
        LET d == last.doc
            o == last.out
        IN  /\ d = NoneDoc => o = NoneDoc
            /\ (d # NoneDoc /\ "_id" \in DOMAIN d) =>
                 /\ DOMAIN o = (DOMAIN d \ {"_id"}) \cup {"id"}
                 /\ o["id"] = ObjectIdStr(d["_id"])
                 /\ \A f \in DOMAIN d \ {"_id"} : o[f] = d[f]

C8_Witness ==
    /\ last.op = "to_public"
    /\ last.doc # NoneDoc
    /\ {"_id", "name", "photos"} \subseteq DOMAIN last.doc
    /\ last.out["id"] = <<"a", "b">>

(* C1 ----------------------------------------------------------------- *)

\* the conjunction of the supplied constraints, every supplied value constraining
SuppliedConstraints(doc, req) ==
    /\ req.species # None => doc["species"] = TheValue(req.species)
    /\ req.size # None => doc["size"] = TheValue(req.size)
    /\ req.featured # None => doc["featured"] = TheValue(req.featured)
    /\ req.age_min # None => doc["age"] >= TheValue(req.age_min)
    /\ req.age_max # None => doc["age"] <= TheValue(req.age_max)

\* the same, with an empty species or size counting as absent
NonEmptyConstraints(doc, req) ==
    /\ (req.species # None /\ TheValue(req.species) # "") => doc["species"] = TheValue(req.species)
    /\ (req.size # None /\ TheValue(req.size) # "") => doc["size"] = TheValue(req.size)
    /\ req.featured # None => doc["featured"] = TheValue(req.featured)
    /\ req.age_min # None => doc["age"] >= TheValue(req.age_min)
    /\ req.age_max # None => doc["age"] <= TheValue(req.age_max)

\* a search without q that the handler answered from the store
AnsweredSearch ==
    /\ last.op = "list_animals"
    /\ last.status = 200
    /\ last.db = "up"

\* C1 as stated: the documents GET /animals returns without q are those
\* satisfying every supplied constraint among species, size, featured, age_min
\* and age_max (up to the limit).
C1_SuppliedConjunction ==
    (AnsweredSearch /\ last.req.q = None) =>
        ReturnsFrom(last.body,
                    IdsOf({d \in Docs(pre["animal"]) : SuppliedConstraints(d, last.req)}),
                    OrDefault(last.req.limit, 24))

\* C1, amended: the same with a species or size given as the empty string
\* contributing no constraint, like an absent one.
C1_NonEmptyConjunction ==
    (AnsweredSearch /\ last.req.q = None) =>
        ReturnsFrom(last.body,
                    IdsOf({d \in Docs(pre["animal"]) : NonEmptyConstraints(d, last.req)}),
                    OrDefault(last.req.limit, 24))

C1_Witness ==
    /\ AnsweredSearch
    /\ last.req.q = None
    /\ last.req.species = Some("cat")
    /\ last.req.size = Some("")
    /\ last.req.featured = Some(TRUE)
    /\ last.req.age_min = Some(2) /\ last.req.age_max = Some(5)
    /\ last.req.limit = None
    /\ Len(last.body) = 1
    /\ Len(pre["animal"]) = 3

(* C2 ----------------------------------------------------------------- *)

\* text contains q as a substring, letter case ignored
ContainsIgnoringCase(text, q) ==
    \E i \in 0..(Len(text) - Len(q)) :
        \A k \in 1..Len(q) : Lower(text[i + k]) = Lower(q[k])

QConstraint(doc, q) ==
    \E f \in {"name", "breed", "description"} :
        f \in DOMAIN doc /\ ContainsIgnoringCase(doc[f], q)

\* C2 as stated: with q present, the documents GET /animals returns are those
\* where name, breed or description contains q as a case-insensitive
\* substring, and which satisfy the other constraints (up to the limit).
C2_SubstringSearch ==
    (AnsweredSearch /\ last.req.q # None) =>
        ReturnsFrom(last.body,
                    IdsOf({d \in Docs(pre["animal"]) :
                              /\ QConstraint(d, TheValue(last.req.q))
                              /\ NonEmptyConstraints(d, last.req)}),
                    OrDefault(last.req.limit, 24))

(* C4 ----------------------------------------------------------------- *)

\* C4: GET /animals with a limit outside [1, 100] is rejected without a store
\* query; limit 1 and limit 100 are accepted; an answer holds at most `limit`
\* records (24 when no limit is given).
C4_AnimalsLimit ==
    last.op = "list_animals" =>
        /\ (last.req.limit # None /\ TheValue(last.req.limit) \notin 1..100) =>
              (last.status = 422 /\ ~last.queried /\ last.body = <<>>)
        /\ (last.req.limit \in {Some(1), Some(100)}
              /\ last.req.age_min # Some(-1) /\ last.req.age_max # Some(-1)) =>
              last.status # 422
        /\ last.status = 200 => Len(last.body) <= OrDefault(last.req.limit, 24)

C4_Witness ==
    /\ AnsweredSearch
    /\ last.req.limit = Some(1)
    /\ last.queried
    /\ Len(last.body) = 1
    /\ Cardinality(IdsOf({d \in Docs(pre["animal"]) : NonEmptyConstraints(d, last.req)})) > 1
    /\ last.req.q = None

(* C3 ----------------------------------------------------------------- *)

\* C3 as stated: GET /stories answers with at most `limit` records (6 when no
\* limit is given), and rejects a limit outside [1, 100] with a
\* parameter-validation error.
C3_StoriesLimit ==
    last.op = "get_stories" =>
        /\ (last.req.limit # None /\ TheValue(last.req.limit) \notin 1..100) =>
              last.status = 422
        /\ last.status = 200 => Len(last.body) <= OrDefault(last.req.limit, 6)

(* C5 ----------------------------------------------------------------- *)

\* C5 as stated: a read endpoint asked while the store is unconfigured or
\* unreachable answers with the empty sequence, never with an error.
C5_ReadsDegrade ==
    (last.op \in ReadOps /\ last.status # 422 /\ last.db \in {"none", "down"}) =>
        (last.status = 200 /\ last.body = <<>>)

(* C6 ----------------------------------------------------------------- *)

\* the request bodies the schemas must refuse: a required field missing, an
\* email that is no address, a donation without a strictly positive amount
Refusable(op, raw) ==
    \/ raw.full_name = None
    \/ raw.email \in {Some(MalformedEmail), Some(UndottedEmail)}
    \/ op = "submit_application" /\ (raw.animal_id = None \/ raw.email = None)
    \/ op = "submit_volunteer" /\ raw.email = None
    \/ op = "submit_donation" /\ (raw.amount = None \/ raw.amount \in {Some(-50), Some(0)})

\* C6: a write request whose body fails validation is answered with a client
\* error and leaves the store as it was; no client error comes with a write.
C6_InvalidBodyNoWrite ==
    last.op \in WriteOps =>
        /\ Refusable(last.op, last.req) => last.status = 422
        /\ last.status = 422 => (store = pre /\ Refusable(last.op, last.req))

C6_Witness ==
    /\ last.op = "submit_application"
    /\ last.req.email = Some(MalformedEmail)
    /\ last.req.animal_id # None /\ last.req.full_name # None
    /\ last.db = "up"
    /\ last.status = 422

(* C7 ----------------------------------------------------------------- *)

CollectionOf(op) ==
    CASE op = "submit_application" -> "application"
      [] op = "submit_volunteer" -> "volunteer"
      [] op = "submit_donation" -> "donation"

TokenOf(op) == IF op = "submit_donation" THEN "pledged" ELSE "received"

\* exactly one document more in collection c than before, everything else as before
OneAdded(c) ==
    /\ Len(store[c]) = Len(pre[c]) + 1
    /\ SubSeq(store[c], 1, Len(pre[c])) = pre[c]
    /\ \A o \in Collections \ {c} : store[o] = pre[o]

\* C7: a valid write request ends either with one document added to its
\* collection and a response carrying that document's identity and the fixed
\* status token, or with no document added and a server error carrying the
\* cause; success is never answered for a write that was not stored.
C7_WriteAllOrNothing ==
    (last.op \in WriteOps /\ last.status # 422) =>
        LET c == CollectionOf(last.op)
        IN  \/ /\ last.status = 200
               /\ OneAdded(c)
               /\ last.body.id = ObjectIdStr(store[c][Len(store[c])]["_id"])
               /\ last.body.status = TokenOf(last.op)
            \/ /\ last.status = 500
               /\ store = pre
               /\ last.body.detail \in {"Database not available", "ServerSelectionTimeoutError"}

C7_Witness ==
    /\ last.op = "submit_donation"
    /\ last.status = 200
    /\ last.body.status = "pledged"
    /\ last.req.amount = Some(255)
    /\ Len(store["donation"]) = 1

(* C9 ----------------------------------------------------------------- *)

AtMostOneCopy(coll, docs) == \A k \in 1..Len(docs) : Copies(coll, docs[k]) <= 1

\* C9: whatever startup runs have happened, neither collection holds more than
\* one copy of its seed content; a startup run adds nothing to a collection
\* that was not empty, and a completed run on an empty collection leaves
\* exactly the seed content in it.
C9_SeedOnce ==
    /\ AtMostOneCopy(store["animal"], examples)
    /\ AtMostOneCopy(store["story"], story_examples)
    /\ last.op = "seed_data" =>
         /\ \A c \in {"animal", "story"} : pre[c] # <<>> => store[c] = pre[c]
         /\ \A c \in Collections \ {"animal", "story"} : store[c] = pre[c]
         /\ last.outcome = "seeded" =>
              /\ pre["animal"] = <<>> => StripAll(store["animal"]) = examples
              /\ pre["story"] = <<>> => StripAll(store["story"]) = story_examples

\* a second startup run, on a store the first run seeded
C9_Witness ==
    /\ last.op = "seed_data"
    /\ last.outcome = "seeded"
    /\ StripAll(pre["animal"]) = examples
    /\ StripAll(pre["story"]) = story_examples
    /\ store = pre

(* C10 ---------------------------------------------------------------- *)

AllIds == UNION {{store[c][i]["_id"] : i \in 1..Len(store[c])} : c \in Collections}

StoredCount == Len(store["animal"]) + Len(store["story"]) + WritesDone

\* C10: every operation leaves each stored document in place with its
\* identity and field values; a read endpoint leaves the store as it is; no
\* two stored documents share an identity.
C10_CreateReadOnly ==
    /\ \A c \in Collections :
          Len(pre[c]) <= Len(store[c]) /\ SubSeq(store[c], 1, Len(pre[c])) = pre[c]
    /\ last.op \in ReadOps \cup {"health"} => store = pre
    /\ Cardinality(AllIds) = StoredCount

C10_Witness ==
    /\ last.op = "list_animals"
    /\ last.status = 200
    /\ Len(last.body) > 1
    /\ Len(store["application"]) = 1
    /\ Len(store["story"]) = 2

====
